---- MODULE Spec2Model ----
(***************************************************************************)
(* Model of the association builder of MapCor (src/associations.py) over   *)
(* the pair store TStatCorr (src/stat_corr_types.py).                      *)
(*                                                                         *)
(* Real numbers are kept exactly, in units of 1/80: the diagonal value 1.0 *)
(* is One = 80, a correlation 0.75 is 60, 0.875 is 70, 0.9 is 72.  A mean  *)
(* is kept as the pair (sum, count) and two means are compared by          *)
(* cross-multiplication.  The enumerated correlations and thresholds are   *)
(* multiples of 1/8, for which the float arithmetic of the code is exact   *)
(* (sums of eighths are exact and a correctly rounded quotient orders like *)
(* the exact one); the 0.9/0.8/0.3 scenario is enumerated separately.      *)
(* A stored correlation is a record [nan, val]: nan is numpy's NaN.        *)
(***************************************************************************)
EXTENDS Integers, Sequences, FiniteSets, TLC

\* ------------------------------------------------------------------ bounds
MaxN == 4          \* largest number of features (columns) of a store
MaxIters == 2      \* largest max_iters of a configuration
MaxRuns == 2       \* calls of build_associations on one store and configuration
MaxCol == 3        \* largest column index passed to a call on the store
MaxPairs == 3      \* most pairs a store built call by call holds
MaxLen == 4        \* longest vector handed to rank_array
MaxRecords == 4    \* most records (rows) of the data handed to join_percent
MaxNWide == 5      \* largest number of features of the stores of SpecWide
MaxNLate == 6      \* number of features of the stores of SpecLate
MaxItersLate == 3  \* max_iters of the first run of SpecLate

\* 1.0 in units of 1/80: the diagonal of the matrix
One == 80

\* ------------------------------------------------------------------ inputs
FeatureNames == <<"F0", "F1", "F2", "F3", "F4", "F5", "F6", "F7">>

Num(v) == [nan |-> FALSE, val |-> v]
NaN == [nan |-> TRUE, val |-> 0]

\* what a filled store holds for a pair here: a negative correlation (-0.5)
\* and two strong ones, 0.75 and 0.875
RawCorr == {Num(-40), Num(60), Num(70)}

ThresholdRoots == {60}      \* 0.75
ThresholdAvgs == {20, 40}   \* 0.25, 0.5
MaxItersVals == (-1) .. MaxIters
Epsilons == {0, 20, 80}     \* 0, 0.25, 1.0

Configs ==
    [threshold_root : ThresholdRoots, threshold_avg : ThresholdAvgs,
     max_iters : MaxItersVals, convergence_epsilon : Epsilons]

\* the end-to-end scenario: F0, F1, F2 pairwise at 0.9, F3 at (clamped) 0 with
\* all of them, threshold_root 0.8, threshold_avg 0.3
ScenarioNames == SubSeq(FeatureNames, 1, 4)
ScenarioN == Len(ScenarioNames)
ScenarioStrong == Num(72)
ScenarioZero == {NaN, Num(-40), Num(0)}

ScenarioConfigs ==
    [threshold_root : {64}, threshold_avg : {24},
     max_iters : MaxItersVals, convergence_epsilon : Epsilons]

\* ------------------------------------------------------------------ helpers
Features(n) == 0 .. (n - 1)

AllPairs(n) == {p \in Features(n) \X Features(n) : p[1] < p[2]}

\* (i, j) pairs in the order of the registration loops of act_run
PairBefore(p, q) == p[1] < q[1] \/ (p[1] = q[1] /\ p[2] < q[2])

RECURSIVE PairsInOrder(_)
PairsInOrder(S) ==
    IF S = {} THEN <<>>
    ELSE LET p == CHOOSE x \in S : \A y \in S : x = y \/ PairBefore(x, y)
         IN <<p>> \o PairsInOrder(S \ {p})

SeqToSet(s) == {s[k] : k \in 1 .. Len(s)}

RECURSIVE SumSeq(_)
SumSeq(s) == IF s = <<>> THEN 0 ELSE Head(s) + SumSeq(Tail(s))

\* list(S) for a Python set of small non-negative ints: every element sits in
\* the slot of its own hash, so iteration is ascending
RECURSIVE list(_)
list(S) ==
    IF S = {} THEN <<>>
    ELSE LET m == CHOOSE x \in S : \A y \in S : x <= y
         IN <<m>> \o list(S \ {m})

\* ------------------------------------------------------------------ state
VARIABLES
    column_names,     \* TStatCorr.column_names
    pairs,            \* TStatCorr.pairs: sequence of [col1, col2]
    pair_names,       \* TStatCorr.pair_names
    corr,             \* TStatCorr.corr: one entry per pair
    dist10,           \* TStatCorr.dist10
    rr,               \* TStatCorr.rr
    all_pairs_stat,   \* TStatCorr.all_pairs_stat
    feature_stats,    \* TStatCorr.feature_stats
    invalid_columns,  \* the attribute act_run sets on the store
    params,           \* the configuration dict of build_associations
    pc,               \* position inside build_associations
    corr_matrix,      \* dense clamped matrix, [feature -> [feature -> 1/80ths]]
    available,        \* the pool
    clusters,         \* sequence of cluster records
    iter_count,
    moved,
    root,             \* root of the cluster being grown in SEEDING
    current_cluster,  \* the cluster being grown in SEEDING
    candidates,       \* candidates of the growing cluster still to scan
    todo,             \* features of list(available) still to offer in REASSIGNING
    result,           \* the returned list
    trace,            \* history: pool/cluster states the run went through
    prev_runs,        \* history: <<trace, result>> of the earlier runs
    call,             \* the last call made on the store or of a pure function
    calc_i            \* the loop index i of calculate_all_correlations

vars == <<column_names, pairs, pair_names, corr, dist10, rr, all_pairs_stat,
          feature_stats, invalid_columns, params, pc, corr_matrix, available,
          clusters, iter_count, moved, root, current_cluster, candidates,
          todo, result, trace, prev_runs, call, calc_i>>

store == <<column_names, pairs, pair_names, corr, dist10, rr, all_pairs_stat,
           feature_stats, invalid_columns>>
locals == <<corr_matrix, available, clusters, iter_count, moved, root,
            current_cluster, candidates, todo>>

\* ------------------------------------------------------------------ TStatCorr
count == Len(pairs)

get_pair(i) == IF 0 <= i /\ i < Len(pairs) THEN pairs[i + 1]
               ELSE [col1 |-> -1, col2 |-> -1]

get_corr(i) == IF 0 <= i /\ i < Len(corr) THEN corr[i + 1] ELSE Num(0)

num_features == Len(column_names)

\* TExtendedStat(): min, max, mean, std_dev all 0.0
TExtendedStat == [min |-> Num(0), max |-> Num(0), mean |-> Num(0), std_dev |-> Num(0)]

\* what __init__ and clear() put into all_pairs_stat
NoPairsStat == [corr |-> TExtendedStat, dist10 |-> TExtendedStat, rr |-> TExtendedStat]

\* generate_pair_name: f"{n1} _ {n2}", kept as the pair of names
generate_pair_name(names, col1, col2) == <<names[col1 + 1], names[col2 + 1]>>

\* a call as the history keeps it: the operation, its arguments, what it
\* returned (<<>> for None), whether it raised, and the store it started from
Call(op, args, ret, raised) ==
    [op |-> op, args |-> args, ret |-> ret, raised |-> raised, before |-> store]

\* no call made yet
NoCall == [op |-> "none", args |-> <<>>, ret |-> <<>>, raised |-> FALSE, before |-> <<>>]

\* ------------------------------------------------------------------ phases
NoStat == [num |-> 0, den |-> 0]

Cluster(fs, r) ==
    [features |-> fs, root |-> r, internal_avg_r |-> NoStat, external_avg_r |-> NoStat]

Snapshot == [at |-> pc, pool |-> available, cl |-> clusters]

\* history only: the step's resulting pool/cluster state joins the trace
Record == trace' = Append(trace, Snapshot') /\ UNCHANGED <<prev_runs, call, calc_i>>

\* variant: without r = max(r, 0.0)
ClampNaNOnly(r) == IF r.nan THEN 0 ELSE r.val

\* r = 0.0 if nan; r = max(r, 0.0)
Clamp(r) == IF r.nan THEN 0 ELSE IF r.val > 0 THEN r.val ELSE 0

\* the value the matrix gets from the pair loop and fill_diagonal
MatrixEntry(i, j) ==
    IF i = j THEN One
    ELSE LET hits == {k \in 0 .. (count - 1) :
                         \/ (get_pair(k).col1 = i /\ get_pair(k).col2 = j)
                         \/ (get_pair(k).col1 = j /\ get_pair(k).col2 = i)}
         IN IF hits = {} THEN 0
            ELSE Clamp(get_corr(CHOOSE k \in hits : \A h \in hits : h <= k))

BuildMatrix ==
    [i \in Features(num_features) |-> [j \in Features(num_features) |-> MatrixEntry(i, j)]]

\* the store act_run leaves for the chosen values: pairs in registration order
StoreOf(n, registered, ch) ==
    LET reg == PairsInOrder(registered)
    IN /\ column_names = SubSeq(FeatureNames, 1, n)
       /\ pairs = [k \in 1 .. Len(reg) |-> [col1 |-> reg[k][1], col2 |-> reg[k][2]]]
       /\ pair_names = [k \in 1 .. Len(reg) |->
                           generate_pair_name(column_names, reg[k][1], reg[k][2])]
       /\ corr = [k \in 1 .. Len(reg) |-> ch[reg[k]]]
       /\ dist10 = [k \in 1 .. Len(reg) |-> Num(0)]
       /\ rr = [k \in 1 .. Len(reg) |-> Num(0)]
       /\ all_pairs_stat = NoPairsStat
       /\ feature_stats = <<>>
       /\ invalid_columns = {}

\* act_run registers every pair of the selected columns; a store that was
\* only initialized holds none
GeneralInput ==
    /\ \E n \in 0 .. MaxN :
         \E registered \in {AllPairs(n), {}} :
            \E ch \in [registered -> RawCorr] : StoreOf(n, registered, ch)
    /\ params \in Configs

ScenarioInput ==
    /\ \E ch \in [AllPairs(ScenarioN) -> {ScenarioStrong} \cup ScenarioZero] :
         /\ \A p \in AllPairs(ScenarioN) :
               ch[p] = ScenarioStrong <=> p[2] < ScenarioN - 1
         /\ StoreOf(ScenarioN, AllPairs(ScenarioN), ch)
    /\ params \in ScenarioConfigs

\* the frame of a call of build_associations before its first line
Entry ==
    /\ pc = "start"
    /\ corr_matrix = <<>>
    /\ available = {}
    /\ clusters = <<>>
    /\ iter_count = 0
    /\ moved = 0
    /\ root = -1
    /\ current_cluster = <<>>
    /\ candidates = <<>>
    /\ todo = <<>>
    /\ result = <<>>
    /\ trace = <<>>

Init ==
    /\ (GeneralInput \/ ScenarioInput)
    /\ Entry
    /\ prev_runs = <<>>
    /\ call = NoCall
    /\ calc_i = 0

\* variant: the guard without the count() test
NothingToClusterFewFeatures == num_features < 2

\* ---- line 13
NothingToCluster == num_features < 2 \/ count = 0

\* ---- lines 12-14: nothing to cluster
EarlyReturn ==
    /\ pc = "start"
    /\ NothingToCluster
    /\ result' = <<>>
    /\ pc' = "done"
    /\ UNCHANGED <<store, params, locals>>
    /\ Record

\* variant: the clamped value is written back to the store
ReadsStoreClamping ==
    /\ corr' = [k \in 1 .. Len(corr) |-> Num(Clamp(corr[k]))]
    /\ UNCHANGED <<column_names, pairs, pair_names, dist10, rr, all_pairs_stat,
                   feature_stats, invalid_columns>>

\* ---- lines 18-24: the pair loop calls count, get_pair and get_corr only,
\* and r is a local
ReadsStore == UNCHANGED store

\* ---- lines 16-31: the matrix, the pool, the empty cluster list
Preprocess ==
    /\ pc = "start"
    /\ ~NothingToCluster
    /\ corr_matrix' = BuildMatrix
    /\ available' = Features(num_features)
    /\ clusters' = <<>>
    /\ iter_count' = 0
    /\ pc' = "loop"
    /\ ReadsStore
    /\ UNCHANGED <<params, moved, root, current_cluster, candidates, todo, result>>
    /\ Record

\* variant: the loop head without "iter_count += 1"
LoopHeadNoCount ==
    /\ pc = "loop"
    /\ IF available # {} /\ iter_count < params.max_iters
       THEN /\ moved' = 0
            /\ pc' = "seeding"
       ELSE /\ pc' = "post"
            /\ UNCHANGED moved
    /\ UNCHANGED <<store, params, corr_matrix, available, clusters, iter_count, root,
                   current_cluster, candidates, todo, result>>
    /\ Record

\* ---- lines 32-34: the head of the outer loop
LoopHead ==
    /\ pc = "loop"
    /\ IF available # {} /\ iter_count < params.max_iters
       THEN /\ iter_count' = iter_count + 1
            /\ moved' = 0
            /\ pc' = "seeding"
       ELSE /\ pc' = "post"
            /\ UNCHANGED <<iter_count, moved>>
    /\ UNCHANGED <<store, params, corr_matrix, available, clusters, root,
                   current_cluster, candidates, todo, result>>
    /\ Record

\* ---- lines 39-45: the scan for the strongest pair of the pool
NoPair == <<>>

\* the (a, b) of the two nested loops over list(available), in loop order
ScanOrder(pool) ==
    LET la == list(pool)
        n == Len(la)
    IN [k \in 1 .. (n * n) |-> <<la[((k - 1) \div n) + 1], la[((k - 1) % n) + 1]>>]

RECURSIVE ScanBest(_, _, _)
ScanBest(ps, max_r, best_pair) ==
    IF ps = <<>> THEN best_pair
    ELSE LET a == Head(ps)[1]
             b == Head(ps)[2]
         IN IF a < b /\ corr_matrix[a][b] > max_r
                     /\ corr_matrix[a][b] >= params.threshold_root
            THEN ScanBest(Tail(ps), corr_matrix[a][b], <<a, b>>)
            ELSE ScanBest(Tail(ps), max_r, best_pair)

\* variant: the scan without the threshold_root test
RECURSIVE ScanAnyStrength(_, _, _)
ScanAnyStrength(ps, max_r, best_pair) ==
    IF ps = <<>> THEN best_pair
    ELSE LET a == Head(ps)[1]
             b == Head(ps)[2]
         IN IF a < b /\ corr_matrix[a][b] > max_r
            THEN ScanAnyStrength(Tail(ps), corr_matrix[a][b], <<a, b>>)
            ELSE ScanAnyStrength(Tail(ps), max_r, best_pair)

BestPairAnyStrength(pool) == ScanAnyStrength(ScanOrder(pool), -One, NoPair)

\* variant: the scan stops at the first pair that reaches threshold_root
RECURSIVE ScanFirstStrong(_)
ScanFirstStrong(ps) ==
    IF ps = <<>> THEN NoPair
    ELSE LET a == Head(ps)[1]
             b == Head(ps)[2]
         IN IF a < b /\ corr_matrix[a][b] >= params.threshold_root
            THEN <<a, b>>
            ELSE ScanFirstStrong(Tail(ps))

BestPairFirstStrong(pool) == ScanFirstStrong(ScanOrder(pool))

BestPair(pool) == ScanBest(ScanOrder(pool), -One, NoPair)

\* variant: the row is summed over the pooled features only
RowSumPooled(f) == SumSeq([k \in 1 .. Len(list(available)) |-> corr_matrix[f][list(available)[k]]])

\* corr_matrix.iloc[f].mean(), as the row sum: every row has num_features entries
RowSum(f) == SumSeq([k \in 1 .. num_features |-> corr_matrix[f][k - 1]])

\* sorted(s, key): "before" holds the pairs <<x, y>> whose keys put x strictly
\* before y; elements with equal keys keep their order, as in Python's sort
StableSort(s, before) ==
    LET pos(i) == 1 + Cardinality({j \in 1 .. Len(s) :
                        \/ <<s[j], s[i]>> \in before
                        \/ (<<s[i], s[j]>> \notin before /\ j < i)})
    IN [k \in 1 .. Len(s) |-> s[CHOOSE i \in 1 .. Len(s) : pos(i) = k]]

\* lines 57-58: the pooled features outside the seed pair, strongest first
Candidates(pool, cluster, r) ==
    LET rest == pool \ SeqToSet(cluster)
        stronger == {p \in rest \X rest : corr_matrix[p[1]][r] > corr_matrix[p[2]][r]}
    IN StableSort(list(rest), stronger)

\* corr_matrix.loc[f, members].mean() >= threshold, members not empty
SumTo(f, members) == SumSeq([k \in 1 .. Len(members) |-> corr_matrix[f][members[k]]])

MeanAtLeast(f, members, threshold) == SumTo(f, members) >= threshold * Len(members)

\* variant: any of the strongest qualifying pairs is taken, not the first one
\* of the scan
SeedPickAnyMaximalPair ==
    /\ pc = "seeding"
    /\ LET strong == {p \in available \X available :
                        p[1] < p[2] /\ corr_matrix[p[1]][p[2]] >= params.threshold_root}
           maximal == {p \in strong :
                        \A q \in strong : corr_matrix[q[1]][q[2]] <= corr_matrix[p[1]][p[2]]}
       IN IF maximal = {}
          THEN /\ pc' = "weeding"
               /\ UNCHANGED <<root, current_cluster, candidates>>
          ELSE \E best_pair \in maximal :
                 LET a == best_pair[1]
                     b == best_pair[2]
                     r == IF RowSum(a) > RowSum(b) THEN a ELSE b
                     cc == IF r = a THEN <<a, b>> ELSE <<b, a>>
                 IN /\ root' = r
                    /\ current_cluster' = cc
                    /\ candidates' = Candidates(available, cc, r)
                    /\ pc' = "growing"
    /\ UNCHANGED <<store, params, corr_matrix, available, clusters, iter_count,
                   moved, todo, result>>
    /\ Record

\* variant: SEEDING ends with the first cluster it stores
SeedPickOnce ==
    /\ pc = "seeding"
    /\ LET stored == Len(trace) >= 2 /\ trace[Len(trace) - 1].at = "growing"
           best_pair == IF available = {} \/ stored THEN NoPair ELSE BestPair(available)
       IN IF best_pair = NoPair
          THEN /\ pc' = "weeding"
               /\ UNCHANGED <<root, current_cluster, candidates>>
          ELSE LET a == best_pair[1]
                   b == best_pair[2]
                   r == IF RowSum(a) > RowSum(b) THEN a ELSE b
                   cc == IF r = a THEN <<a, b>> ELSE <<b, a>>
               IN /\ root' = r
                  /\ current_cluster' = cc
                  /\ candidates' = Candidates(available, cc, r)
                  /\ pc' = "growing"
    /\ UNCHANGED <<store, params, corr_matrix, available, clusters, iter_count,
                   moved, todo, result>>
    /\ Record

\* ---- lines 37-58: one pass of SEEDING up to the candidate list
SeedPick ==
    /\ pc = "seeding"
    /\ LET best_pair == IF available = {} THEN NoPair ELSE BestPair(available)
       IN IF best_pair = NoPair
          THEN /\ pc' = "weeding"
               /\ UNCHANGED <<root, current_cluster, candidates>>
          ELSE LET a == best_pair[1]
                   b == best_pair[2]
                   r == IF RowSum(a) > RowSum(b) THEN a ELSE b
                   cc == IF r = a THEN <<a, b>> ELSE <<b, a>>
               IN /\ root' = r
                  /\ current_cluster' = cc
                  /\ candidates' = Candidates(available, cc, r)
                  /\ pc' = "growing"
    /\ UNCHANGED <<store, params, corr_matrix, available, clusters, iter_count,
                   moved, todo, result>>
    /\ Record

\* variant: a candidate is admitted on its mean alone
GrowStepMeanOnly ==
    /\ pc = "growing"
    /\ candidates # <<>>
    /\ LET cand == Head(candidates)
       IN current_cluster' =
             IF MeanAtLeast(cand, current_cluster, params.threshold_avg)
             THEN Append(current_cluster, cand)
             ELSE current_cluster
    /\ candidates' = Tail(candidates)
    /\ UNCHANGED <<store, params, pc, corr_matrix, available, clusters, iter_count,
                   moved, root, todo, result>>
    /\ Record

\* variant: the mean is taken over the seed pair, not over the members so far
GrowStepSeedMean ==
    /\ pc = "growing"
    /\ candidates # <<>>
    /\ LET cand == Head(candidates)
           r_root == corr_matrix[cand][root]
       IN current_cluster' =
             IF r_root >= params.threshold_root
                /\ MeanAtLeast(cand, SubSeq(current_cluster, 1, 2), params.threshold_avg)
             THEN Append(current_cluster, cand)
             ELSE current_cluster
    /\ candidates' = Tail(candidates)
    /\ UNCHANGED <<store, params, pc, corr_matrix, available, clusters, iter_count,
                   moved, root, todo, result>>
    /\ Record

\* ---- lines 59-63: one candidate of the growing cluster
GrowStep ==
    /\ pc = "growing"
    /\ candidates # <<>>
    /\ LET cand == Head(candidates)
           r_root == corr_matrix[cand][root]
       IN current_cluster' =
             IF r_root >= params.threshold_root
                /\ MeanAtLeast(cand, current_cluster, params.threshold_avg)
             THEN Append(current_cluster, cand)
             ELSE current_cluster
    /\ candidates' = Tail(candidates)
    /\ UNCHANGED <<store, params, pc, corr_matrix, available, clusters, iter_count,
                   moved, root, todo, result>>
    /\ Record

\* variant: the members admitted to the new cluster are counted as moved
SeedStoreCounted ==
    /\ pc = "growing"
    /\ candidates = <<>>
    /\ clusters' = Append(clusters, Cluster(list(SeqToSet(current_cluster)), root))
    /\ available' = available \ SeqToSet(current_cluster)
    /\ moved' = moved + Len(current_cluster) - 2
    /\ pc' = "seeding"
    /\ UNCHANGED <<store, params, corr_matrix, iter_count, root,
                   current_cluster, candidates, todo, result>>
    /\ Record

\* ---- lines 66-67: the finished cluster is stored and leaves the pool
SeedStore ==
    /\ pc = "growing"
    /\ candidates = <<>>
    /\ clusters' = Append(clusters, Cluster(list(SeqToSet(current_cluster)), root))
    /\ available' = available \ SeqToSet(current_cluster)
    /\ pc' = "seeding"
    /\ UNCHANGED <<store, params, corr_matrix, iter_count, moved, root,
                   current_cluster, candidates, todo, result>>
    /\ Record

\* variant: "<=" for "<"
WeakOrEqual(cl) ==
    LET IsWeak(f) == f # cl.root /\ corr_matrix[f][cl.root] <= params.threshold_root
    IN SelectSeq(cl.features, IsWeak)

\* ---- lines 70-75: the weak members of a cluster, and the cluster without them
Weak(cl) ==
    LET IsWeak(f) == f # cl.root /\ corr_matrix[f][cl.root] < params.threshold_root
    IN SelectSeq(cl.features, IsWeak)

Weeded(cl) ==
    LET weak == SeqToSet(Weak(cl))
        Stays(f) == f \notin weak
    IN [cl EXCEPT !.features = SelectSeq(cl.features, Stays)]

\* ---- lines 70-81: WEEDING, and the snapshot list(available) of REASSIGNING
Weeding ==
    /\ pc = "weeding"
    /\ clusters' = [k \in 1 .. Len(clusters) |-> Weeded(clusters[k])]
    /\ available' = available \cup UNION {SeqToSet(Weak(clusters[k])) : k \in 1 .. Len(clusters)}
    /\ root' = IF clusters = <<>> THEN root ELSE clusters[Len(clusters)].root
    /\ todo' = list(available')
    /\ pc' = "reassigning"
    /\ UNCHANGED <<store, params, corr_matrix, iter_count, moved, current_cluster,
                   candidates, result>>
    /\ Record

\* ---- lines 82-93: the cluster a pooled feature is offered to
NoCluster == <<>>

RECURSIVE ScanClusters(_, _, _, _)
ScanClusters(f, cl_idx, best_potential_r, best_cl) ==
    IF cl_idx >= Len(clusters) THEN best_cl
    ELSE LET cl == clusters[cl_idx + 1]
             potential_r == corr_matrix[f][cl.root]
             current_r == 0
         IN IF Len(cl.features) = 0
            THEN ScanClusters(f, cl_idx + 1, best_potential_r, best_cl)
            ELSE IF /\ potential_r > best_potential_r
                    /\ potential_r > current_r
                    /\ potential_r >= params.threshold_root
                    /\ MeanAtLeast(f, cl.features, params.threshold_avg)
                 THEN ScanClusters(f, cl_idx + 1, potential_r, <<cl_idx>>)
                 ELSE ScanClusters(f, cl_idx + 1, best_potential_r, best_cl)

BestCluster(f) == ScanClusters(f, 0, -One, NoCluster)

\* variant: the moved feature is appended to the cluster but stays in the pool
ReassignStepKeepsPool ==
    /\ pc = "reassigning"
    /\ todo # <<>>
    /\ LET f == Head(todo)
           best_cl == BestCluster(f)
       IN IF best_cl # NoCluster
          THEN /\ clusters' = [clusters EXCEPT ![best_cl[1] + 1].features = Append(@, f)]
               /\ moved' = moved + 1
          ELSE UNCHANGED <<clusters, moved>>
    /\ todo' = Tail(todo)
    /\ UNCHANGED <<store, params, pc, corr_matrix, available, iter_count, root,
                   current_cluster, candidates, result>>
    /\ Record

\* variant: the first iteration offers the pooled features but moves none
ReassignStepFromSecond ==
    /\ pc = "reassigning"
    /\ todo # <<>>
    /\ LET f == Head(todo)
           best_cl == BestCluster(f)
       IN IF best_cl # NoCluster /\ iter_count >= 2
          THEN /\ clusters' = [clusters EXCEPT ![best_cl[1] + 1].features = Append(@, f)]
               /\ available' = available \ {f}
               /\ moved' = moved + 1
          ELSE UNCHANGED <<clusters, available, moved>>
    /\ todo' = Tail(todo)
    /\ UNCHANGED <<store, params, pc, corr_matrix, iter_count, root,
                   current_cluster, candidates, result>>
    /\ Record

\* ---- lines 81-97: one pooled feature of REASSIGNING
ReassignStep ==
    /\ pc = "reassigning"
    /\ todo # <<>>
    /\ LET f == Head(todo)
           best_cl == BestCluster(f)
       IN IF best_cl # NoCluster
          THEN /\ clusters' = [clusters EXCEPT ![best_cl[1] + 1].features = Append(@, f)]
               /\ available' = available \ {f}
               /\ moved' = moved + 1
          ELSE UNCHANGED <<clusters, available, moved>>
    /\ todo' = Tail(todo)
    /\ UNCHANGED <<store, params, pc, corr_matrix, iter_count, root,
                   current_cluster, candidates, result>>
    /\ Record

\* variant: the test never passes
ConvergedNever == FALSE

\* variant: "<=" for "<"
ConvergedOrEqual == moved * One <= params.convergence_epsilon * num_features

\* ---- line 100: moved < convergence_epsilon * num_features
Converged == moved * One < params.convergence_epsilon * num_features

\* ---- lines 99-101: the convergence test, once the for loop is through
ConvergenceCheck ==
    /\ pc = "reassigning"
    /\ todo = <<>>
    /\ pc' = IF Converged THEN "post" ELSE "loop"
    /\ UNCHANGED <<store, params, locals, result>>
    /\ Record

\* variant: the pooled features are left out
WithoutSingletons(cls, pool) == cls

\* ---- lines 104-105: the pooled features become singletons
WithSingletons(cls, pool) ==
    cls \o [k \in 1 .. Cardinality(pool) |-> Cluster(<<list(pool)[k]>>, list(pool)[k])]

\* ---- lines 107-120: the two averages of a cluster, as (sum, count)
Mean(num, den) == [num |-> num, den |-> den]

InternalAvg(feats) ==
    IF Len(feats) = 1 THEN Mean(One, 1)
    ELSE LET ij == {p \in SeqToSet(feats) \X SeqToSet(feats) : p[1] < p[2]}
             internal_rs == PairsInOrder(ij)
         IN IF ij = {} THEN Mean(0, 1)
            ELSE Mean(SumSeq([k \in 1 .. Len(internal_rs) |->
                                 corr_matrix[internal_rs[k][1]][internal_rs[k][2]]]),
                      Len(internal_rs))

ExternalAvg(feats) ==
    LET outside == list(Features(num_features) \ SeqToSet(feats))
        total == SumSeq([k \in 1 .. Len(feats) |-> SumTo(feats[k], outside)])
    IN IF Len(feats) * Len(outside) = 0 THEN Mean(0, 1)
       ELSE Mean(total, Len(feats) * Len(outside))

\* variant: the internal average is added to the value the cluster already
\* carries instead of replacing it
WithAveragesAccumulated(cl) ==
    [cl EXCEPT !.internal_avg_r = Mean(cl.internal_avg_r.num + InternalAvg(cl.features).num,
                                       InternalAvg(cl.features).den),
               !.external_avg_r = ExternalAvg(cl.features)]

WithAverages(cl) ==
    [cl EXCEPT !.internal_avg_r = InternalAvg(cl.features),
               !.external_avg_r = ExternalAvg(cl.features)]

\* ---- line 123: key (-len(features), -internal_avg_r)
MeanGreater(x, y) == x.num * y.den > y.num * x.den

\* variant: the size key without its minus sign
KeyBeforeSmallestFirst(c, d) ==
    \/ Len(c.features) < Len(d.features)
    \/ (Len(c.features) = Len(d.features) /\ MeanGreater(c.internal_avg_r, d.internal_avg_r))

KeyBefore(c, d) ==
    \/ Len(c.features) > Len(d.features)
    \/ (Len(c.features) = Len(d.features) /\ MeanGreater(c.internal_avg_r, d.internal_avg_r))

SortClusters(cls) ==
    StableSort(cls, {p \in SeqToSet(cls) \X SeqToSet(cls) : KeyBefore(p[1], p[2])})

\* ---- line 126
DropEmpty(cls) ==
    LET NotEmpty(c) == c.features # <<>>
    IN SelectSeq(cls, NotEmpty)

Finalize(cls, pool) ==
    LET all == WithSingletons(cls, pool)
        avg == [k \in 1 .. Len(all) |-> WithAverages(all[k])]
    IN DropEmpty(SortClusters(avg))

\* ---- lines 103-128: postprocessing and return
Postprocess ==
    /\ pc = "post"
    /\ clusters' = Finalize(clusters, available)
    /\ result' = clusters'
    /\ pc' = "done"
    /\ UNCHANGED <<store, params, corr_matrix, available, iter_count, moved, root,
                   current_cluster, candidates, todo>>
    /\ Record

\* one call of build_associations
Next ==
    \/ EarlyReturn
    \/ Preprocess
    \/ LoopHead
    \/ SeedPick
    \/ GrowStep
    \/ SeedStore
    \/ Weeding
    \/ ReassignStep
    \/ ConvergenceCheck
    \/ Postprocess

Spec == Init /\ [][Next]_vars

\* a store filled through add_or_get_pair and set_corr for some of the pairs
\* only: any set of registered pairs, each at NaN, -0.5 or 0.875
PartialCorr == {NaN, Num(-40), Num(70)}

PartialConfigs ==
    [threshold_root : ThresholdRoots, threshold_avg : {20}, max_iters : {MaxIters},
     convergence_epsilon : {0}]

PartialInput ==
    /\ \E n \in 0 .. MaxN :
         \E registered \in SUBSET AllPairs(n) :
            \E ch \in [registered -> PartialCorr] : StoreOf(n, registered, ch)
    /\ params \in PartialConfigs
    /\ Entry
    /\ prev_runs = <<>>
    /\ call = NoCall
    /\ calc_i = 0

SpecPartial == PartialInput /\ [][Next]_vars

\* stores of one more feature, every pair registered, each at 0.0 or 0.875;
\* threshold_root at the lower end of its spin box or at 0.75, threshold_avg
\* 0.125 or 0.5
WideCorr == {Num(0), Num(70)}

WideConfigs ==
    [threshold_root : {0, 60}, threshold_avg : {10, 40}, max_iters : {MaxIters},
     convergence_epsilon : {0}]

WideInput ==
    /\ \E n \in 0 .. MaxNWide :
         \E ch \in [AllPairs(n) -> WideCorr] : StoreOf(n, AllPairs(n), ch)
    /\ params \in WideConfigs
    /\ Entry
    /\ prev_runs = <<>>
    /\ call = NoCall
    /\ calc_i = 0

SpecWide == WideInput /\ [][Next]_vars

\* stores of MaxNLate features in which features join a cluster late: F0 and
\* F1 at 0.875, F2, F3, F4 at 0.75 with F0, and weaker ties among F1 .. F4;
\* each of these pairs holds its value or 0.0, every other pair 0.0
LateValue(p) ==
    CASE p = <<0, 1>> -> 70
      [] p \in {<<0, 2>>, <<0, 3>>, <<0, 4>>, <<1, 4>>, <<3, 4>>} -> 60
      [] p \in {<<2, 3>>, <<2, 4>>} -> 50
      [] OTHER -> 0

LatePairs == {p \in AllPairs(MaxNLate) : LateValue(p) > 0}

LateEpsilons == {0, 20}    \* 0, 0.25

LateConfigs ==
    [threshold_root : {60}, threshold_avg : {40}, max_iters : {MaxItersLate},
     convergence_epsilon : LateEpsilons]

LateInput ==
    /\ \E n \in {0, MaxNLate} :
         \E present \in SUBSET LatePairs :
            StoreOf(n, AllPairs(n),
                    [p \in AllPairs(n) |-> IF p \in present THEN Num(LateValue(p)) ELSE Num(0)])
    /\ params \in LateConfigs
    /\ Entry
    /\ prev_runs = <<>>
    /\ call = NoCall
    /\ calc_i = 0

\* ---- main.py, form_associations: the user asks for the associations again;
\* the store and the spin boxes are as they were, the call starts afresh
Rerun ==
    /\ pc = "done"
    /\ Len(prev_runs) < MaxRuns - 1
    /\ prev_runs' = Append(prev_runs, <<trace, result>>)
    /\ pc' = "start"
    /\ corr_matrix' = <<>>
    /\ available' = {}
    /\ clusters' = <<>>
    /\ iter_count' = 0
    /\ moved' = 0
    /\ root' = -1
    /\ current_cluster' = <<>>
    /\ candidates' = <<>>
    /\ todo' = <<>>
    /\ result' = <<>>
    /\ trace' = <<>>
    /\ UNCHANGED <<store, params, call, calc_i>>

NextRerun == Next \/ Rerun

SpecRerun == Init /\ [][NextRerun]_vars

\* ---- main.py, form_associations: the user changes the max_iters and the
\* convergence spin boxes and asks for the associations again; call keeps the
\* finished call, its params and what it returned
RerunWith ==
    /\ pc = "done"
    /\ Len(prev_runs) < MaxRuns - 1
    /\ prev_runs' = Append(prev_runs, <<trace, result>>)
    /\ call' = Call("build_associations", <<params>>, result, FALSE)
    /\ \E m \in 1 .. (MaxItersLate + 1), e \in LateEpsilons :
         params' = [params EXCEPT !.max_iters = m, !.convergence_epsilon = e]
    /\ pc' = "start"
    /\ corr_matrix' = <<>>
    /\ available' = {}
    /\ clusters' = <<>>
    /\ iter_count' = 0
    /\ moved' = 0
    /\ root' = -1
    /\ current_cluster' = <<>>
    /\ candidates' = <<>>
    /\ todo' = <<>>
    /\ result' = <<>>
    /\ trace' = <<>>
    /\ UNCHANGED <<store, calc_i>>

NextLate == Next \/ RerunWith

SpecLate == LateInput /\ [][NextLate]_vars

\* ================================================================ TStatCorr
\* The calls on a TStatCorr, one action per call.  Column arguments are drawn
\* from 0..MaxCol; negative ones, which Python would index from the end of
\* column_names, are not enumerated.

\* the variables of build_associations, which no call on the store touches
NotRunning ==
    /\ pc = "idle"
    /\ params = [threshold_root |-> 64, threshold_avg |-> 24, max_iters |-> 1,
                 convergence_epsilon |-> 0]
    /\ corr_matrix = <<>>
    /\ available = {}
    /\ clusters = <<>>
    /\ iter_count = 0
    /\ moved = 0
    /\ root = -1
    /\ current_cluster = <<>>
    /\ candidates = <<>>
    /\ todo = <<>>
    /\ result = <<>>
    /\ trace = <<>>
    /\ prev_runs = <<>>
    /\ calc_i = 0

Idle == pc = "idle" /\ UNCHANGED <<params, pc, locals, result, trace, prev_runs, calc_i>>

\* ---- lines 36-50: __init__
StoreInit ==
    /\ column_names = <<>>
    /\ pairs = <<>>
    /\ pair_names = <<>>
    /\ corr = <<>>
    /\ dist10 = <<>>
    /\ rr = <<>>
    /\ all_pairs_stat = NoPairsStat
    /\ feature_stats = <<>>
    /\ invalid_columns = {}
    /\ call = NoCall
    /\ NotRunning

\* ---- lines 56-70: what clear() leaves, with the given column names
Cleared(names) ==
    /\ column_names' = names
    /\ pairs' = <<>>
    /\ pair_names' = <<>>
    /\ corr' = <<>>
    /\ dist10' = <<>>
    /\ rr' = <<>>
    /\ all_pairs_stat' = NoPairsStat
    /\ feature_stats' = <<>>
    /\ UNCHANGED invalid_columns

\* ---- lines 52-54
initialize ==
    /\ \E n \in 0 .. MaxCol :
         /\ Cleared(SubSeq(FeatureNames, 1, n))
         /\ call' = Call("initialize", <<n>>, <<>>, FALSE)
    /\ Idle

\* ---- lines 56-70
clear ==
    /\ Cleared(<<>>)
    /\ call' = Call("clear", <<>>, <<>>, FALSE)
    /\ Idle

Min2(a, b) == IF a < b THEN a ELSE b
Max2(a, b) == IF a < b THEN b ELSE a

\* variant: the pair is stored as given
createAsGiven(a, b) == [col1 |-> a, col2 |-> b]

\* ---- lines 10-12: TColumnPair.create
create(a, b) == [col1 |-> Min2(a, b), col2 |-> Max2(a, b)]

\* ---- lines 93-97: index of the first record equal to (col1, col2), or -1
find_pair_index(col1, col2) ==
    LET hits == {i \in 0 .. Len(pairs) - 1 :
                    pairs[i + 1].col1 = col1 /\ pairs[i + 1].col2 = col2}
    IN IF hits = {} THEN -1 ELSE CHOOSE i \in hits : \A j \in hits : i <= j

\* ---- lines 134-135
get_pair_index(col1, col2) == find_pair_index(Min2(col1, col2), Max2(col1, col2))

\* column_names[col] raises IndexError
NoSuchColumn(col) == col >= Len(column_names)

\* ---- lines 75-91
add_or_get_pair ==
    /\ \E a, b \in 0 .. MaxCol :
         LET p == create(a, b)
             idx == find_pair_index(p.col1, p.col2)
         IN IF a = b
            THEN /\ call' = Call("add_or_get_pair", <<a, b>>, <<-1>>, FALSE)
                 /\ UNCHANGED store
            ELSE IF idx >= 0
            THEN /\ call' = Call("add_or_get_pair", <<a, b>>, <<idx>>, FALSE)
                 /\ UNCHANGED store
            ELSE /\ Len(pairs) < MaxPairs
                 /\ pairs' = Append(pairs, p)
                 /\ IF NoSuchColumn(p.col1) \/ NoSuchColumn(p.col2)
                    THEN \* line 85 raises after line 84 has appended the pair
                         /\ call' = Call("add_or_get_pair", <<a, b>>, <<>>, TRUE)
                         /\ UNCHANGED <<pair_names, corr, dist10, rr>>
                    ELSE /\ pair_names' = Append(pair_names,
                                 generate_pair_name(column_names, p.col1, p.col2))
                         /\ corr' = Append(corr, Num(0))
                         /\ dist10' = Append(dist10, Num(0))
                         /\ rr' = Append(rr, Num(0))
                         /\ call' = Call("add_or_get_pair", <<a, b>>, <<Len(pairs)>>, FALSE)
                 /\ UNCHANGED <<column_names, all_pairs_stat, feature_stats,
                                invalid_columns>>
    /\ Idle

\* ---- lines 104-114: the list a setter leaves; an index out of range is ignored
set_corr(index, value) ==
    IF 0 <= index /\ index < Len(corr) THEN [corr EXCEPT ![index + 1] = value] ELSE corr

set_dist10(index, value) ==
    IF 0 <= index /\ index < Len(dist10) THEN [dist10 EXCEPT ![index + 1] = value]
    ELSE dist10

set_rr(index, value) ==
    IF 0 <= index /\ index < Len(rr) THEN [rr EXCEPT ![index + 1] = value] ELSE rr

NextStore == initialize \/ clear \/ add_or_get_pair

SpecStore == StoreInit /\ [][NextStore]_vars

\* values handed to the setters (the lists start at 0.0)
SetterValues == {Num(40)}

\* ---- lines 104-106: a call of set_corr
SetCorr ==
    /\ \E index \in -1 .. MaxPairs, value \in SetterValues :
         /\ corr' = set_corr(index, value)
         /\ call' = Call("set_corr", <<index, value>>, <<>>, FALSE)
    /\ UNCHANGED <<column_names, pairs, pair_names, dist10, rr, all_pairs_stat,
                   feature_stats, invalid_columns>>
    /\ Idle

\* ---- lines 108-110: a call of set_dist10
SetDist10 ==
    /\ \E index \in -1 .. MaxPairs, value \in SetterValues :
         /\ dist10' = set_dist10(index, value)
         /\ call' = Call("set_dist10", <<index, value>>, <<>>, FALSE)
    /\ UNCHANGED <<column_names, pairs, pair_names, corr, rr, all_pairs_stat,
                   feature_stats, invalid_columns>>
    /\ Idle

\* ---- lines 112-114: a call of set_rr
SetRR ==
    /\ \E index \in -1 .. MaxPairs, value \in SetterValues :
         /\ rr' = set_rr(index, value)
         /\ call' = Call("set_rr", <<index, value>>, <<>>, FALSE)
    /\ UNCHANGED <<column_names, pairs, pair_names, corr, dist10, all_pairs_stat,
                   feature_stats, invalid_columns>>
    /\ Idle

NextSetters == NextStore \/ SetCorr \/ SetDist10 \/ SetRR

SpecSetters == StoreInit /\ [][NextSetters]_vars

\* ========================================================= corr_calculations
\* rank_array.  Values are integers in units of half the tolerance, so that
\* 1e-9 is Tolerance = 2: values 0 and 1 are tied, 0 and 2 are not, and 0, 1, 2
\* form one run.  Ranks are kept doubled: the rank 2.5 is 5.
Tolerance == 2

RankValues == {0, 1, 2, 4}

RankInputs == UNION {[1 .. n -> RankValues] : n \in 0 .. MaxLen}

Abs(x) == IF x < 0 THEN -x ELSE x

\* ---- line 22: np.argsort(values), 0-based indices in ascending value order
argsort(values) ==
    LET idx == 0 .. Len(values) - 1
    IN StableSort(list(idx), {p \in idx \X idx : values[p[1] + 1] < values[p[2] + 1]})

\* variant: only equal values are tied
RECURSIVE RunEndExactTies(_, _, _)
RunEndExactTies(values, indices, j) ==
    IF j < Len(values) - 1 /\ values[indices[j + 1] + 1] = values[indices[j + 2] + 1]
    THEN RunEndExactTies(values, indices, j + 1)
    ELSE j

\* ---- lines 27-29: the last position j of the run that starts at position j
RECURSIVE RunEnd(_, _, _)
RunEnd(values, indices, j) ==
    IF j < Len(values) - 1
       /\ Abs(values[indices[j + 1] + 1] - values[indices[j + 2] + 1]) < Tolerance
    THEN RunEnd(values, indices, j + 1)
    ELSE j

\* ---- lines 26-33: the while loop from position k on; temp_rank doubled
RECURSIVE RankFrom(_, _, _, _)
RankFrom(values, indices, k, ranks) ==
    IF k >= Len(values) THEN ranks
    ELSE LET j == RunEnd(values, indices, k)
             temp_rank == k + j + 2
             run == {indices[m + 1] : m \in k .. j}
         IN RankFrom(values, indices, j + 1,
                     [x \in 1 .. Len(values) |->
                         IF (x - 1) \in run THEN temp_rank ELSE ranks[x]])

\* ---- lines 16-35
rank_array(values) ==
    IF Len(values) = 0 THEN <<>>
    ELSE RankFrom(values, argsort(values), 0, [x \in 1 .. Len(values) |-> 0])

\* a store nobody has touched, no call made
NothingCalled == StoreInit

\* one application to one input
rank_array_call ==
    /\ call = NoCall
    /\ \E values \in RankInputs :
         call' = Call("rank_array", <<values>>, rank_array(values), FALSE)
    /\ UNCHANGED store
    /\ Idle

NextRank == rank_array_call

SpecRank == NothingCalled /\ [][NextRank]_vars

\* join_percent.  The two columns get_data yields are the vectors vec_a and
\* vec_b of num_records values; the result cnt_11 * 100 / denominator is kept
\* as the pair (numerator, denominator).  np.argsort keeps equal values in
\* index order for vectors this short.
JoinValues == {0, 1, 2}

Percents == {-10, 0, 30, 50, 100, 150}

JoinInputs ==
    UNION {[1 .. n -> JoinValues] \X [1 .. n -> JoinValues] : n \in 0 .. MaxRecords}

\* variant: the first cnt_sel indices of the ascending order
TopSetLowest(vec, cnt_sel) == {argsort(vec)[k] : k \in 1 .. cnt_sel}

\* ---- lines 61-66: set(indices[-cnt_sel:])
TopSet(vec, cnt_sel) ==
    {argsort(vec)[k] : k \in (Len(vec) - cnt_sel + 1) .. Len(vec)}

\* ---- lines 52-71
join_percent(vec_a, vec_b, num_records, percent) ==
    IF num_records < 2 \/ percent <= 0 \/ percent > 100 THEN Mean(0, 1)
    ELSE LET cnt_sel == (num_records * percent) \div 100
         IN IF cnt_sel = 0 THEN Mean(0, 1)
            ELSE LET cnt_11 == Cardinality(TopSet(vec_a, cnt_sel) \cap TopSet(vec_b, cnt_sel))
                     denominator == cnt_sel * 2 - cnt_11
                 IN IF denominator # 0 THEN Mean(cnt_11 * 100, denominator)
                    ELSE Mean(0, 1)

\* one application to one input
join_percent_call ==
    /\ call = NoCall
    /\ \E vecs \in JoinInputs, percent \in Percents :
         call' = Call("join_percent", <<vecs[1], vecs[2], Len(vecs[1]), percent>>,
                      join_percent(vecs[1], vecs[2], Len(vecs[1]), percent), FALSE)
    /\ UNCHANGED store
    /\ Idle

NextJoin == join_percent_call

SpecJoin == NothingCalled /\ [][NextJoin]_vars

\* spearman_corr.  scipy's spearmanr is outside the repository: its result is
\* NaN when a vector holds a NaN or is constant, and otherwise some float in
\* [-1, 1], drawn here from SpearmanValues.
SpearmanValues == {Num(-80), Num(0), Num(80)}

IsConstant(vals) == \A x, y \in 1 .. Len(vals) : vals[x] = vals[y]

HasNaN(vals) == \E x \in 1 .. Len(vals) : vals[x].nan

\* ---- lines 37-50: the values spearman_corr can return for two vectors
spearman_corr(vals_a, vals_b, num_records) ==
    IF num_records < 2 THEN {NaN}
    ELSE IF HasNaN(vals_a) \/ HasNaN(vals_b) \/ IsConstant(vals_a) \/ IsConstant(vals_b)
    THEN {NaN}
    ELSE SpearmanValues

\* calculate_rr_for_pair
\* ---- lines 82-92: the two vectors from feature k on, as <<corr_vec_a, corr_vec_b>>
RECURSIVE CorrVecs(_, _, _, _)
CorrVecs(col_a, col_b, k, vecs) ==
    IF k >= num_features THEN vecs
    ELSE IF k = col_a \/ k = col_b THEN CorrVecs(col_a, col_b, k + 1, vecs)
    ELSE LET idx_ac == get_pair_index(col_a, k)
             idx_bc == get_pair_index(col_b, k)
         IN IF idx_ac = -1 \/ idx_bc = -1 THEN CorrVecs(col_a, col_b, k + 1, vecs)
            ELSE CorrVecs(col_a, col_b, k + 1,
                          <<Append(vecs[1], get_corr(idx_ac)),
                            Append(vecs[2], get_corr(idx_bc))>>)

\* variant: one common feature is taken as enough
TooFewCommonNone(common_count) == common_count < 1

\* ---- line 95
TooFewCommon(common_count) == common_count < 2

\* ---- lines 73-101: the values the call can store as the pair's rr
rr_for_pair(pair_idx) ==
    LET pair == get_pair(pair_idx)
        vecs == CorrVecs(pair.col1, pair.col2, 0, <<(<<>>), (<<>>)>>)
        common_count == Len(vecs[1])
    IN IF num_features < 3 THEN {Num(0)}
       ELSE IF TooFewCommon(common_count) THEN {Num(0)}
       ELSE spearman_corr(vecs[1], vecs[2], common_count)

\* the stores calculate_rr_for_pair is applied to: any set of registered
\* pairs, every pair with its own correlation, or NaN for the pairs of F0;
\* rr holds 0.5 from an earlier filling
OwnCorr(p) == Num(16 * p[1] + 4 * p[2])

RRInput ==
    /\ \E n \in 0 .. MaxN :
         \E registered \in SUBSET AllPairs(n) :
            \E ch \in {[p \in registered |-> OwnCorr(p)],
                        [p \in registered |-> IF p[1] = 0 THEN NaN ELSE OwnCorr(p)]} :
               LET reg == PairsInOrder(registered)
               IN /\ column_names = SubSeq(FeatureNames, 1, n)
                  /\ pairs = [k \in 1 .. Len(reg) |-> [col1 |-> reg[k][1], col2 |-> reg[k][2]]]
                  /\ pair_names = [k \in 1 .. Len(reg) |->
                                      generate_pair_name(column_names, reg[k][1], reg[k][2])]
                  /\ corr = [k \in 1 .. Len(reg) |-> ch[reg[k]]]
                  /\ dist10 = [k \in 1 .. Len(reg) |-> Num(0)]
                  /\ rr = [k \in 1 .. Len(reg) |-> Num(40)]
    /\ all_pairs_stat = NoPairsStat
    /\ feature_stats = <<>>
    /\ invalid_columns = {}
    /\ call = NoCall
    /\ NotRunning

\* ---- lines 73-101, one application
calculate_rr_for_pair ==
    /\ call = NoCall
    /\ \E pair_idx \in (-1) .. count :
         \E value \in rr_for_pair(pair_idx) :
            LET pair == get_pair(pair_idx)
            IN /\ rr' = set_rr(pair_idx, value)
               /\ call' = Call("calculate_rr_for_pair", <<pair_idx>>,
                               CorrVecs(pair.col1, pair.col2, 0, <<(<<>>), (<<>>)>>), FALSE)
    /\ UNCHANGED <<column_names, pairs, pair_names, corr, dist10, all_pairs_stat,
                   feature_stats, invalid_columns>>
    /\ Idle

NextRR == calculate_rr_for_pair

SpecRR == RRInput /\ [][NextRR]_vars

\* calculate_all_correlations
\* ---- stat_corr_types.py lines 137-149: numpy's min, max, mean and std of a
\* list; a NaN in the list makes all four NaN.  std_dev is kept as its square,
\* the population variance (n * sum(x^2) - sum(x)^2) / n^2.
Vals(arr) == [k \in 1 .. Len(arr) |-> arr[k].val]

ExtendedStat(arr) ==
    IF HasNaN(arr) THEN [min |-> NaN, max |-> NaN, mean |-> NaN, std_dev |-> NaN]
    ELSE LET n == Len(arr)
             total == SumSeq(Vals(arr))
             squares == SumSeq([k \in 1 .. n |-> arr[k].val * arr[k].val])
         IN [min |-> Num(CHOOSE x \in SeqToSet(Vals(arr)) :
                              \A y \in SeqToSet(Vals(arr)) : x <= y),
             max |-> Num(CHOOSE x \in SeqToSet(Vals(arr)) :
                              \A y \in SeqToSet(Vals(arr)) : x >= y),
             mean |-> Mean(total, n),
             std_dev |-> Mean(n * squares - total * total, n * n)]

update_all_statistics(corr_arr, dist10_arr, rr_arr) ==
    IF count = 0 THEN all_pairs_stat
    ELSE [corr |-> ExtendedStat(corr_arr), dist10 |-> ExtendedStat(dist10_arr),
          rr |-> ExtendedStat(rr_arr)]

\* ---- stat_corr_types.py lines 151-183
PairsOf(f) == {k \in 1 .. count : pairs[k].col1 = f \/ pairs[k].col2 = f}

FeatureAvg(arr, f) ==
    LET mine == list(PairsOf(f))
    IN IF mine = <<>> THEN Num(0)
       ELSE IF \E k \in PairsOf(f) : arr[k].nan THEN NaN
       ELSE Mean(SumSeq([k \in 1 .. Len(mine) |-> arr[mine[k]].val]), Len(mine))

update_feature_statistics(corr_arr, dist10_arr, rr_arr) ==
    IF num_features = 0 THEN feature_stats
    ELSE [f \in 1 .. num_features |->
             [feature_idx |-> f - 1,
              pair_count |-> Cardinality(PairsOf(f - 1)),
              avg_corr |-> FeatureAvg(corr_arr, f - 1),
              avg_dist10 |-> FeatureAvg(dist10_arr, f - 1),
              avg_rr |-> FeatureAvg(rr_arr, f - 1)]]

\* the data columns spearman_corr is given: a constant one and a varying one
CalcData == {<<Num(One), Num(One)>>, <<Num(0), Num(One)>>}

RecordCounts == {1, 3}

\* ---- main.py lines 722-741, 751-756: the store act_run hands over (every
\* pair registered, all values 0.0, the invalid columns marked), or a store
\* that was only initialized; the call is at its first line
CalcInput ==
    /\ \E n \in 0 .. MaxN :
         \E registered \in {AllPairs(n), {}} :
            LET reg == PairsInOrder(registered)
                zeros == [k \in 1 .. Len(reg) |-> Num(0)]
            IN /\ column_names = SubSeq(FeatureNames, 1, n)
               /\ pairs = [k \in 1 .. Len(reg) |-> [col1 |-> reg[k][1], col2 |-> reg[k][2]]]
               /\ pair_names = [k \in 1 .. Len(reg) |->
                                   generate_pair_name(column_names, reg[k][1], reg[k][2])]
               /\ corr = zeros
               /\ dist10 = zeros
               /\ rr = zeros
               /\ invalid_columns \in SUBSET Features(n)
    /\ all_pairs_stat = NoPairsStat
    /\ feature_stats = <<>>
    /\ params = [threshold_root |-> 64, threshold_avg |-> 24, max_iters |-> 1,
                 convergence_epsilon |-> 0]
    /\ corr_matrix = <<>>
    /\ available = {}
    /\ clusters = <<>>
    /\ iter_count = 0
    /\ moved = 0
    /\ root = -1
    /\ current_cluster = <<>>
    /\ candidates = <<>>
    /\ todo = <<>>
    /\ result = <<>>
    /\ trace = <<>>
    /\ prev_runs = <<>>
    /\ \E num_records \in RecordCounts :
         call = Call("calculate_all_correlations", <<num_records>>, <<>>, FALSE)
    /\ calc_i = 0
    /\ pc = "calc_skip"

\* what a step of calculate_all_correlations never touches
CalcFrame ==
    UNCHANGED <<column_names, pairs, pair_names, invalid_columns, params, locals,
                result, prev_runs>>

\* a write on the store, as trace lists it
Written(op, index) == [op |-> op, index |-> index]

\* ---- lines 109, 116: TStatCorr has no attribute set_dist50; the
\* AttributeError leaves calculate_all_correlations, which catches nothing
NoSet_dist50 ==
    /\ pc' = "calc_raised"
    /\ call' = [call EXCEPT !.raised = TRUE]
    /\ UNCHANGED <<calc_i, dist10, rr, all_pairs_stat, feature_stats>>

\* ---- lines 105-111, one pass of the first loop
CalcSkip ==
    /\ pc = "calc_skip"
    /\ calc_i < count
    /\ LET pair == get_pair(calc_i)
       IN IF pair.col1 \in invalid_columns \/ pair.col2 \in invalid_columns
          THEN /\ corr' = set_corr(calc_i, NaN)
               /\ trace' = Append(trace, Written("set_corr", calc_i))
               /\ NoSet_dist50
          ELSE /\ calc_i' = calc_i + 1
               /\ UNCHANGED <<pc, call, trace, corr, dist10, rr, all_pairs_stat,
                              feature_stats>>
    /\ CalcFrame

\* ---- line 105: the first loop is through
CalcSkipEnd ==
    /\ pc = "calc_skip"
    /\ calc_i >= count
    /\ pc' = "calc_corr"
    /\ calc_i' = 0
    /\ UNCHANGED <<call, trace, corr, dist10, rr, all_pairs_stat, feature_stats>>
    /\ CalcFrame

\* ---- lines 113-117, one pass of the second loop
CalcCorr ==
    /\ pc = "calc_corr"
    /\ calc_i < count
    /\ \E vals_a \in CalcData, vals_b \in CalcData :
         \E value \in spearman_corr(vals_a, vals_b, call.args[1]) :
            corr' = set_corr(calc_i, value)
    /\ trace' = Append(trace, Written("set_corr", calc_i))
    /\ NoSet_dist50
    /\ CalcFrame

\* ---- line 113: the second loop is through
CalcCorrEnd ==
    /\ pc = "calc_corr"
    /\ calc_i >= count
    /\ pc' = "calc_tail"
    /\ UNCHANGED <<calc_i, call, trace, corr, dist10, rr, all_pairs_stat, feature_stats>>
    /\ CalcFrame

\* the lists the rr loop can leave: rr_for_pair reads corr only, so each
\* pair's value is chosen on its own
RRAll ==
    {f \in [1 .. Len(rr) -> SpearmanValues \cup {NaN, Num(0)}] :
        \A k \in 1 .. Len(rr) :
           IF k <= count THEN f[k] \in rr_for_pair(k - 1) ELSE f[k] = rr[k]}

\* ---- lines 119-125: the rr loop and the two statistics updates
CalcTail ==
    /\ pc = "calc_tail"
    /\ rr' \in RRAll
    /\ all_pairs_stat' = update_all_statistics(corr, dist10, rr')
    /\ feature_stats' = update_feature_statistics(corr, dist10, rr')
    /\ trace' = trace \o [k \in 1 .. count |-> Written("set_rr", k - 1)]
                      \o <<Written("update_all_statistics", -1),
                           Written("update_feature_statistics", -1)>>
    /\ pc' = "calc_done"
    /\ UNCHANGED <<calc_i, call, corr, dist10>>
    /\ CalcFrame

NextCalc == CalcSkip \/ CalcSkipEnd \/ CalcCorr \/ CalcCorrEnd \/ CalcTail

SpecCalc == CalcInput /\ [][NextCalc]_vars

\* ================================================================== claims
HasWork == num_features >= 2 /\ Len(pairs) > 0

Members(cls) == UNION {SeqToSet(cls[k].features) : k \in 1 .. Len(cls)}

NoRepeats(s) == \A i, j \in 1 .. Len(s) : i # j => s[i] # s[j]

PoolAndClustersPartition ==
    /\ \A k \in 1 .. Len(clusters) :
          /\ NoRepeats(clusters[k].features)
          /\ SeqToSet(clusters[k].features) \cap available = {}
    /\ \A k, l \in 1 .. Len(clusters) :
          k # l => SeqToSet(clusters[k].features) \cap SeqToSet(clusters[l].features) = {}
    /\ available \cup Members(clusters) = Features(num_features)

ReturnedPartition ==
    \A f \in Features(num_features) :
        Cardinality({x \in {<<k, i>> : k \in 1 .. Len(result), i \in 1 .. MaxN + 1} :
                        /\ x[2] <= Len(result[x[1]].features)
                        /\ result[x[1]].features[x[2]] = f}) = 1

\* C1 as stated: with N >= 2 features and a registered pair, at every point of
\* the run (postprocessing and return included) the pool and the clusters'
\* feature lists are pairwise disjoint and cover 0..N-1, and every feature is in
\* exactly one returned cluster.
C1_PartitionAtEveryPoint ==
    (HasWork /\ pc # "start") =>
        /\ PoolAndClustersPartition
        /\ pc = "done" => ReturnedPartition

\* C1 amended: the pool and the clusters' feature lists are pairwise disjoint
\* and cover 0..N-1 at every step of the run up to postprocessing (which appends
\* the pooled features as singletons and leaves them in the pool), and every
\* feature is in exactly one returned cluster.
C1_Partition ==
    (HasWork /\ pc # "start") =>
        /\ pc # "done" => PoolAndClustersPartition
        /\ pc = "done" => ReturnedPartition

C1_Witness ==
    /\ pc = "done"
    /\ available # {}
    /\ \E k \in 1 .. Len(result) : Len(result[k].features) >= 2

\* steps one outer iteration can take with n features: seed picks, candidates,
\* stores, weeding, reassignments, convergence check, loop head
IterationSteps(n) == (n * n) \div 2 + n + 4

NonNegative(m) == IF m > 0 THEN m ELSE 0

C3_EmptyResult ==
    (num_features < 2 \/ Len(pairs) = 0) =>
        /\ pc \in {"start", "done"}
        /\ pc = "start" => ENABLED EarlyReturn
        /\ result = <<>>
        /\ clusters = <<>>
        /\ iter_count = 0
        /\ Len(trace) <= 1

C3_Witness ==
    /\ pc = "done"
    /\ num_features >= 2
    /\ Len(pairs) = 0
    /\ result = <<>>

\* C4: a configuration with a negative max_iters is rejected: the call never
\* returns clusters for it.
C4_ConfigRejected ==
    params.max_iters < 0 => ~(pc = "done" /\ result # <<>>)

TestPasses == moved * One < params.convergence_epsilon * num_features

\* C6 as stated: once an outer iteration has run, the loop is left only because
\* the convergence test passed or because max_iters iterations have run.
C6_StopsByTestOrMaxIters ==
    (pc \in {"post", "done"} /\ iter_count >= 1) =>
        (TestPasses \/ iter_count = params.max_iters)

\* C6 amended: after an outer iteration the loop goes on only if the test
\* moved < convergence_epsilon * N failed, and it is left only because the test
\* passed, the pool is empty or max_iters iterations have run; a loop that ran
\* no iteration had max_iters <= 0; the iterations never exceed max(max_iters, 0).
C6_ConvergenceCheck ==
    /\ (pc \in {"loop", "seeding", "growing", "weeding"} /\ iter_count >= 2) => moved = 0
    /\ (pc = "loop" /\ iter_count >= 1) => ~TestPasses
    /\ (pc \in {"post", "done"} /\ iter_count >= 1) =>
          (TestPasses \/ available = {} \/ iter_count = params.max_iters)
    /\ (pc \in {"post", "done"} /\ HasWork /\ iter_count = 0) => params.max_iters <= 0
    /\ iter_count <= NonNegative(params.max_iters)

C6_Witness ==
    /\ pc = "done"
    /\ iter_count = 1
    /\ params.max_iters = 2
    /\ ~TestPasses
    /\ available = {}

InScenario ==
    /\ num_features = 4
    /\ Len(pairs) > 0
    /\ pc # "start"
    /\ params.threshold_root = 64
    /\ params.threshold_avg = 24
    /\ params.max_iters >= 1
    /\ \A i, j \in 0 .. 2 : i # j => corr_matrix[i][j] = 72
    /\ \A i \in 0 .. 2 : corr_matrix[i][3] = 0 /\ corr_matrix[3][i] = 0

MatrixRowSum(i) ==
    corr_matrix[i][0] + corr_matrix[i][1] + corr_matrix[i][2] + corr_matrix[i][3]

\* C8: in the scenario (F0, F1, F2 pairwise at 0.9, F3 at 0 with all, thresholds
\* 0.8 and 0.3, max_iters >= 1) the call returns two clusters: {F0, F1, F2} with
\* a root of highest row mean among them, then the singleton F3 with root F3.
C8_Scenario ==
    (InScenario /\ pc = "done") =>
        /\ Len(result) = 2
        /\ Len(result[1].features) = 3
        /\ SeqToSet(result[1].features) = {0, 1, 2}
        /\ result[1].root \in {0, 1, 2}
        /\ \A g \in {0, 1, 2} : MatrixRowSum(g) <= MatrixRowSum(result[1].root)
        /\ result[2].features = <<3>>
        /\ result[2].root = 3

C8_Witness == InScenario /\ pc = "done" /\ iter_count >= 1 /\ Len(result) = 2

NoStrongPair ==
    \A i, j \in Features(num_features) :
        i # j => corr_matrix[i][j] < params.threshold_root

\* C9: when no two distinct features have a clamped correlation >= threshold_root
\* no cluster is seeded, no feature is moved, and the call returns N singletons,
\* each with its only feature as root.
C9_AllSingletons ==
    (HasWork /\ pc # "start" /\ NoStrongPair) =>
        /\ pc # "growing"
        /\ moved = 0
        /\ pc # "done" => (clusters = <<>> /\ available = Features(num_features))
        /\ pc = "done" =>
              /\ Len(result) = num_features
              /\ \A k \in 1 .. Len(result) : result[k].features = <<result[k].root>>
              /\ {result[k].root : k \in 1 .. Len(result)} = Features(num_features)

C9_Witness ==
    /\ HasWork
    /\ pc = "done"
    /\ NoStrongPair
    /\ iter_count >= 1
    /\ Len(result) >= 3

\* C10: the returned list holds no empty cluster, every cluster's root is one
\* of its features, and the list is ordered by descending size, clusters of
\* equal size by descending internal_avg_r.
C10_ResultOrdered ==
    pc = "done" =>
        /\ \A k \in 1 .. Len(result) :
              /\ result[k].features # <<>>
              /\ result[k].root \in SeqToSet(result[k].features)
        /\ \A k \in 1 .. Len(result) - 1 :
              LET c == result[k]
                  d == result[k + 1]
              IN /\ Len(c.features) >= Len(d.features)
                 /\ Len(c.features) = Len(d.features) =>
                       c.internal_avg_r.num * d.internal_avg_r.den
                          >= d.internal_avg_r.num * c.internal_avg_r.den

C10_Witness ==
    /\ pc = "done"
    /\ Len(result) = 2
    /\ Len(result[1].features) = 2
    /\ Len(result[2].features) = 2
    /\ result[1].internal_avg_r.num * result[2].internal_avg_r.den
          > result[2].internal_avg_r.num * result[1].internal_avg_r.den

\* C11 as stated: running the postprocessing steps a second time on the state
\* the first pass leaves behind (the returned list and the pool) leaves the
\* list unchanged.
C11_IdempotentOnReturnState ==
    pc = "done" /\ HasWork => Finalize(result, available) = result

\* C11 amended: running the postprocessing steps a second time on a returned
\* list with an empty pool leaves the list unchanged (same clusters, same
\* order, same statistics); with the pool the first pass leaves behind, which
\* is never emptied, the second pass appends one more singleton per pooled
\* feature.
C11_Idempotent ==
    pc = "done" /\ HasWork =>
        /\ Finalize(result, {}) = result
        /\ Len(Finalize(result, available)) = Len(result) + Cardinality(available)

C11_Witness ==
    /\ pc = "done"
    /\ available # {}
    /\ Len(result) >= 2
    /\ Len(result[1].features) >= 2

\* what add_or_get_pair(a, b) returns in the current state when it returns
AddReturns(a, b) ==
    IF a = b THEN -1
    ELSE IF get_pair_index(a, b) >= 0 THEN get_pair_index(a, b) ELSE Len(pairs)

\* C12: after any sequence of initialize, clear and add_or_get_pair calls every
\* stored pair has col1 < col2 and no two records are equal; get_pair_index is
\* symmetric; a call add_or_get_pair(a, b) that returns gives the index of
\* (min, max), which is what add_or_get_pair(b, a) returns too;
\* add_or_get_pair(a, a) returns -1 and leaves the store unchanged.
C12_CanonicalPairs ==
    /\ \A k \in 1 .. Len(pairs) : pairs[k].col1 < pairs[k].col2
    /\ \A k, l \in 1 .. Len(pairs) : k # l => pairs[k] # pairs[l]
    /\ \A a, b \in 0 .. MaxCol :
          /\ get_pair_index(a, b) = get_pair_index(b, a)
          /\ AddReturns(a, b) = AddReturns(b, a)
    /\ (call.op = "add_or_get_pair" /\ ~call.raised) =>
          LET a == call.args[1]
              b == call.args[2]
          IN IF a = b
             THEN call.ret = <<-1>> /\ store = call.before
             ELSE /\ call.ret = <<get_pair_index(a, b)>>
                  /\ call.ret = <<AddReturns(b, a)>>
                  /\ call.ret[1] >= 0
                  /\ pairs[call.ret[1] + 1] = [col1 |-> Min2(a, b), col2 |-> Max2(a, b)]

C12_Witness ==
    /\ call.op = "add_or_get_pair"
    /\ call.args[1] > call.args[2]
    /\ call.ret = <<1>>
    /\ call.before = store
    /\ Len(pairs) = 3

\* two values of v belong to one run: no two neighbours of the sorted values
\* between them are Tolerance or more apart
SameRun(v, a, b) ==
    LET lo == Min2(a, b)
        hi == Max2(a, b)
        between == {v[x] : x \in {y \in 1 .. Len(v) : lo <= v[y] /\ v[y] <= hi}}
    IN \A p, q \in between :
          (p < q /\ ~\E m \in between : p < m /\ m < q) => q - p < Tolerance

\* twice the mean of the ranks the run of v[x] occupies
MidRankDoubled(v, x) ==
    LET run == {y \in 1 .. Len(v) : SameRun(v, v[x], v[y])}
        below == {y \in 1 .. Len(v) : v[y] < v[x] /\ y \notin run}
    IN 2 * Cardinality(below) + Cardinality(run) + 1

\* C17: rank_array gives every value the mean of the ranks 1..N its run
\* occupies, a run being a maximal stretch of the sorted values whose
\* neighbours differ by less than the tolerance; three equal values followed by
\* a larger one rank 2, 2, 2, 4; the ranks sum to N(N+1)/2.
C17_MidRanks ==
    call.op = "rank_array" =>
        LET v == call.args[1]
            ranks == call.ret
        IN /\ Len(ranks) = Len(v)
           /\ \A x \in 1 .. Len(v) : ranks[x] = MidRankDoubled(v, x)
           /\ SumSeq(ranks) = Len(v) * (Len(v) + 1)
           /\ (Len(v) = 4 /\ v[1] = v[2] /\ v[2] = v[3] /\ v[4] >= v[3] + Tolerance) =>
                 ranks = <<4, 4, 4, 8>>

C17_Witness ==
    /\ call.op = "rank_array"
    /\ call.args[1] = <<2, 0, 1, 4>>
    /\ call.ret = <<4, 4, 4, 8>>

\* the 0-based indices of the cnt_sel largest values of v, equal values taken
\* from the highest index down
Largest(v, cnt_sel) ==
    {x \in 0 .. Len(v) - 1 :
        Cardinality({y \in 0 .. Len(v) - 1 :
                        \/ v[y + 1] > v[x + 1]
                        \/ (v[y + 1] = v[x + 1] /\ y > x)}) < cnt_sel}

\* C16: join_percent returns 0 when percent is outside (0,100], when
\* num_records < 2 or when cnt_sel = floor(num_records * percent / 100) is 0;
\* otherwise it returns cnt_11 * 100 / (2 * cnt_sel - cnt_11), cnt_11 the size
\* of the intersection of the two top-cnt_sel index sets, a value in [0,100]
\* that is 100 when the two vectors are identical.
C16_JoinPercent ==
    call.op = "join_percent" =>
        LET vec_a == call.args[1]
            vec_b == call.args[2]
            n == call.args[3]
            percent == call.args[4]
            cnt_sel == (n * percent) \div 100
            cnt_11 == Cardinality(Largest(vec_a, cnt_sel) \cap Largest(vec_b, cnt_sel))
        IN IF percent <= 0 \/ percent > 100 \/ n < 2 \/ cnt_sel = 0
           THEN call.ret.num = 0 /\ call.ret.den = 1
           ELSE /\ call.ret.num = cnt_11 * 100
                /\ call.ret.den = 2 * cnt_sel - cnt_11
                /\ call.ret.den > 0
                /\ 0 <= call.ret.num
                /\ call.ret.num <= 100 * call.ret.den
                /\ vec_a = vec_b => call.ret.num = 100 * call.ret.den

C16_Witness ==
    /\ call.op = "join_percent"
    /\ call.args[4] = 50
    /\ call.args[1] = <<0, 2, 1, 1>>
    /\ call.args[2] = <<1, 2, 0, 0>>
    /\ call.ret = [num |-> 100, den |-> 3]

\* the features other than A and B that are paired with both
CommonNeighbours(A, B) ==
    {C \in Features(num_features) \ {A, B} :
        get_pair_index(A, C) >= 0 /\ get_pair_index(B, C) >= 0}

\* C15: calculate_rr_for_pair raises nothing; it sets the pair's rr to exactly 0
\* when the store has fewer than 3 features or fewer than 2 features C outside
\* {A, B} are paired with both A and B; otherwise its two vectors have the length
\* of that set of features, and position k of both holds the correlation with
\* the same feature C, taken in ascending order; no other rr is touched.
C15_RRDegenerate ==
    call.op = "calculate_rr_for_pair" =>
        LET pair_idx == call.args[1]
            A == get_pair(pair_idx).col1
            B == get_pair(pair_idx).col2
            common == list(CommonNeighbours(A, B))
            vec_a == call.ret[1]
            vec_b == call.ret[2]
        IN /\ ~call.raised
           /\ Len(rr) = Len(pairs)
           /\ \A k \in 1 .. Len(rr) : k # pair_idx + 1 => rr[k] = Num(40)
           /\ (0 <= pair_idx /\ pair_idx < Len(pairs)) =>
                 IF num_features < 3 \/ Len(common) < 2
                 THEN rr[pair_idx + 1] = Num(0)
                 ELSE /\ Len(vec_a) = Len(common)
                      /\ Len(vec_b) = Len(common)
                      /\ \A k \in 1 .. Len(common) :
                            /\ common[k] \notin {A, B}
                            /\ vec_a[k] = corr[get_pair_index(A, common[k]) + 1]
                            /\ vec_b[k] = corr[get_pair_index(B, common[k]) + 1]
                      /\ rr[pair_idx + 1] \in SpearmanValues \cup {NaN}

C15_Witness ==
    /\ call.op = "calculate_rr_for_pair"
    /\ num_features = 4
    /\ Len(pairs) = 3
    /\ call.args[1] = 0
    /\ Cardinality(CommonNeighbours(pairs[1].col1, pairs[1].col2)) = 1
    /\ rr[1] = Num(0)

C15_WitnessVectors ==
    /\ call.op = "calculate_rr_for_pair"
    /\ Len(call.ret[1]) = 2
    /\ rr[call.args[1] + 1] = Num(80)

\* calculate_all_correlations has returned or raised
CalcEnded ==
    call.op = "calculate_all_correlations" /\ pc \in {"calc_done", "calc_raised"}

\* the places in trace where op was applied to index
Places(op, index) == {k \in 1 .. Len(trace) : trace[k] = Written(op, index)}

\* C13: calculate_all_correlations writes corr for every registered pair before
\* any rr, writes rr for every pair before the two statistics updates, and a
\* run over a non-empty store reaches the statistics updates.
C13_PipelineCompletes ==
    (CalcEnded /\ count > 0) =>
        /\ pc = "calc_done"
        /\ Places("update_all_statistics", -1) # {}
        /\ Places("update_feature_statistics", -1) # {}
        /\ \A a \in 0 .. count - 1 :
              /\ Places("set_corr", a) # {}
              /\ Places("set_rr", a) # {}
              /\ \A b \in 0 .. count - 1 :
                    \A x \in Places("set_corr", a), y \in Places("set_rr", b) : x < y
              /\ \A x \in Places("set_rr", a), y \in Places("update_all_statistics", -1) :
                    x < y

\* C14: no exception leaves calculate_all_correlations, and every pair's corr
\* is written by the run, whatever happens while another pair is handled.
C14_FaultIsolated ==
    CalcEnded =>
        /\ ~call.raised
        /\ \A a \in 0 .. count - 1 : Places("set_corr", a) # {}

\* C19: when calculate_all_correlations ends the pair list is the one it was
\* given, and every pair that touches an invalid column has corr NaN.
C19_InvalidPairsNaN ==
    CalcEnded =>
        /\ pairs = call.before[2]
        /\ \A k \in 1 .. count :
              (pairs[k].col1 \in invalid_columns \/ pairs[k].col2 \in invalid_columns)
                  => corr[k].nan

\* C18: no step of build_associations changes the store: column names, pairs,
\* pair names, corr, dist10, rr, the aggregate and per-feature statistics and
\* the invalid columns are after the call what they were before it.
C18_StoreReadOnly == [][store' = store]_vars

C18_Witness ==
    /\ pc = "done"
    /\ Len(result) > 0
    /\ \E k \in 1 .. count :
          /\ corr[k].nan
          /\ corr_matrix[pairs[k].col1][pairs[k].col2] = 0
    /\ \E k \in 1 .. count : ~corr[k].nan /\ corr[k].val < 0

\* the stored correlation of the pair {i, j}, if it is registered
StoredPairs(i, j) == {k \in 1 .. count : {pairs[k].col1, pairs[k].col2} = {i, j}}

\* C20: once build_associations has built its matrix, the matrix is symmetric,
\* has 1.0 on the diagonal, has every other entry in [0, 1], and holds 0.0 for
\* every pair that is not registered or whose stored corr is NaN or negative;
\* no later step changes it.
C20_MatrixShape ==
    (pc # "start" /\ ~NothingToCluster) =>
        /\ DOMAIN corr_matrix = Features(num_features)
        /\ \A a, b \in Features(num_features) :
              /\ corr_matrix[a][b] = corr_matrix[b][a]
              /\ a = b => corr_matrix[a][b] = One
              /\ a # b =>
                    /\ 0 <= corr_matrix[a][b]
                    /\ corr_matrix[a][b] <= One
                    /\ StoredPairs(a, b) = {} => corr_matrix[a][b] = 0
                    /\ \A k \in StoredPairs(a, b) :
                          (corr[k].nan \/ corr[k].val < 0) => corr_matrix[a][b] = 0

C20_Matrix ==
    /\ []C20_MatrixShape
    /\ [][pc # "start" => corr_matrix' = corr_matrix]_vars

C20_Witness ==
    /\ pc = "done"
    /\ num_features = MaxN
    /\ Len(result) > 0
    /\ \E a, b \in Features(num_features) : a # b /\ StoredPairs(a, b) = {}
    /\ \E k \in 1 .. count : corr[k].nan
    /\ \E k \in 1 .. count : ~corr[k].nan /\ corr[k].val < 0
    /\ \E k \in 1 .. count : corr_matrix[pairs[k].col1][pairs[k].col2] = 70

\* the pairs of pooled features that reach threshold_root
StrongPooledPairs ==
    {p \in available \X available :
        p[1] < p[2] /\ corr_matrix[p[1]][p[2]] >= params.threshold_root}

\* the seed pair of the cluster being grown, smaller feature first
SeedPair == <<Min2(current_cluster[1], current_cluster[2]),
              Max2(current_cluster[1], current_cluster[2])>>

\* C21: the seed pair of a SEEDING pass is a pair of pooled features a < b
\* whose matrix value reaches threshold_root and is the maximum over all
\* pairs of pooled features; a pass finds no seed pair and goes on to WEEDING
\* exactly when no pair of pooled features reaches threshold_root.
C21_SeedIsMax ==
    pc = "growing" =>
        /\ SeedPair \in StrongPooledPairs
        /\ \A p \in available \X available :
              p[1] < p[2] =>
                  corr_matrix[p[1]][p[2]] <= corr_matrix[SeedPair[1]][SeedPair[2]]

C21_SeedPair ==
    /\ []C21_SeedIsMax
    /\ [][pc = "seeding" =>
             /\ pc' = "weeding" <=> StrongPooledPairs = {}
             /\ pc' = "growing" <=> StrongPooledPairs # {}]_vars

C21_Witness ==
    /\ pc = "growing"
    /\ corr_matrix[SeedPair[1]][SeedPair[2]] = 70
    /\ \E p \in StrongPooledPairs :
          p[1] < SeedPair[1] /\ corr_matrix[p[1]][p[2]] = 60

\* the sum of row f of the matrix over the features of S
RECURSIVE RowTotalOver(_, _)
RowTotalOver(f, S) ==
    IF S = {} THEN 0
    ELSE LET x == CHOOSE y \in S : TRUE
         IN corr_matrix[f][x] + RowTotalOver(f, S \ {x})

\* C22: the root of a growing cluster is one of the two features of its seed
\* pair and is the first element of the growing cluster; the seed member whose
\* row of the matrix has the strictly higher mean over all features (pooled or
\* not, diagonal included) is the root.
C22_RootOfSeedPair ==
    pc = "growing" =>
        LET a == SeedPair[1]
            b == SeedPair[2]
            mean_a == RowTotalOver(a, Features(num_features))
            mean_b == RowTotalOver(b, Features(num_features))
        IN /\ root \in {a, b}
           /\ current_cluster[1] = root
           /\ mean_a > mean_b => root = a
           /\ mean_b > mean_a => root = b

C22_Witness ==
    /\ pc = "growing"
    /\ Len(clusters) >= 1
    /\ root = SeedPair[1]
    /\ RowTotalOver(SeedPair[1], available) = RowTotalOver(SeedPair[2], available)

\* cand passes the two tests against the given members
Qualifies(cand, r, members) ==
    /\ corr_matrix[cand][r] >= params.threshold_root
    /\ RowTotalOver(cand, members) >= params.threshold_avg * Cardinality(members)

\* C23: when a seed pair is chosen, every other pooled feature becomes a
\* candidate; candidates are scanned strongest correlation to the root first;
\* a candidate is appended to the growing cluster if and only if its correlation
\* to the root is >= threshold_root and its mean correlation to the members so
\* far (seed pair included) is >= threshold_avg; the finished cluster is stored
\* with its root and its members leave the pool.
C23_Picked ==
    (pc = "seeding" /\ pc' = "growing") =>
        /\ SeqToSet(candidates') = available \ SeqToSet(current_cluster')
        /\ Len(candidates') = Cardinality(available) - 2

C23_Scanned ==
    (pc = "growing" /\ candidates # <<>>) =>
        LET cand == Head(candidates)
        IN /\ \A k \in 1 .. Len(candidates) :
                 corr_matrix[candidates[k]][root] <= corr_matrix[cand][root]
           /\ candidates' = Tail(candidates)
           /\ IF Qualifies(cand, root, SeqToSet(current_cluster))
              THEN current_cluster' = Append(current_cluster, cand)
              ELSE current_cluster' = current_cluster

C23_Stored ==
    (pc = "growing" /\ candidates = <<>>) =>
        /\ Len(clusters') = Len(clusters) + 1
        /\ SubSeq(clusters', 1, Len(clusters)) = clusters
        /\ SeqToSet(clusters'[Len(clusters')].features) = SeqToSet(current_cluster)
        /\ Len(clusters'[Len(clusters')].features) = Len(current_cluster)
        /\ clusters'[Len(clusters')].root = root
        /\ available' = available \ SeqToSet(current_cluster)

C23_Admission == [][C23_Picked /\ C23_Scanned /\ C23_Stored]_vars

C23_Witness ==
    /\ pc = "growing"
    /\ candidates = <<>>
    /\ Len(current_cluster) = 4
    /\ ~Qualifies(current_cluster[4], root, {current_cluster[1], current_cluster[2]})

\* the non-root members of a cluster whose correlation to its root is below
\* threshold_root
BelowRoot(cl) ==
    {f \in SeqToSet(cl.features) :
        f # cl.root /\ corr_matrix[f][cl.root] < params.threshold_root}

\* C24: WEEDING takes out of every cluster exactly the non-root members whose
\* correlation to the cluster's root is < threshold_root, in place and keeping
\* the order of the others, and adds them to the pool; afterwards every cluster
\* still holds its root and every other member has correlation to the root
\* >= threshold_root.
C24_WeedingStep ==
    pc = "weeding" =>
        /\ Len(clusters') = Len(clusters)
        /\ \A k \in 1 .. Len(clusters) :
              /\ clusters'[k].root = clusters[k].root
              /\ SeqToSet(clusters'[k].features) =
                    SeqToSet(clusters[k].features) \ BelowRoot(clusters[k])
              /\ Len(clusters'[k].features) =
                    Len(clusters[k].features) - Cardinality(BelowRoot(clusters[k]))
              /\ clusters'[k].root \in SeqToSet(clusters'[k].features)
              /\ \A f \in SeqToSet(clusters'[k].features) :
                    f # clusters'[k].root =>
                        corr_matrix[f][clusters'[k].root] >= params.threshold_root
        /\ available' = available \cup UNION {BelowRoot(clusters[k]) : k \in 1 .. Len(clusters)}

C24_Weeding == [][C24_WeedingStep]_vars

C24_Witness ==
    /\ Len(trace) >= 2
    /\ trace[Len(trace)].at = "reassigning"
    /\ trace[Len(trace) - 1].at = "weeding"
    /\ pc = "reassigning"
    /\ \E k \in 1 .. Len(clusters) :
          \E f \in SeqToSet(clusters[k].features) :
             f # clusters[k].root /\ corr_matrix[f][clusters[k].root] = params.threshold_root

\* the non-empty clusters that qualify for feature f
QualifyingClusters(f) ==
    {k \in 1 .. Len(clusters) :
        /\ clusters[k].features # <<>>
        /\ Qualifies(f, clusters[k].root, SeqToSet(clusters[k].features))}

\* C25: in REASSIGNING a pooled feature leaves the pool if and only if at
\* least one non-empty cluster qualifies (correlation to the cluster's root
\* >= threshold_root, mean correlation to its current members >= threshold_avg),
\* and it is then appended to a qualifying cluster whose root it correlates
\* with most among the qualifying clusters; otherwise nothing changes.
C25_ReassignStep ==
    (pc = "reassigning" /\ todo # <<>>) =>
        LET f == Head(todo)
            Q == QualifyingClusters(f)
        IN /\ f \in available
           /\ IF Q # {}
              THEN /\ available' = available \ {f}
                   /\ \E k \in Q :
                         /\ clusters' = [clusters EXCEPT ![k].features = Append(@, f)]
                         /\ \A l \in Q : corr_matrix[f][clusters[l].root]
                                             <= corr_matrix[f][clusters[k].root]
              ELSE /\ available' = available
                   /\ clusters' = clusters

C25_Reassigning == [][C25_ReassignStep]_vars

\* the pool as WEEDING of the current iteration left it
PoolAfterWeeding ==
    LET k == CHOOSE x \in 2 .. Len(trace) :
                 /\ trace[x].at = "reassigning"
                 /\ trace[x - 1].at = "weeding"
                 /\ \A y \in (x + 1) .. Len(trace) : trace[y - 1].at # "weeding"
    IN trace[k].pool

\* C26: moved is set to 0 when an outer iteration starts, stays 0 through
\* SEEDING and WEEDING (features admitted to new clusters are not counted), and
\* in REASSIGNING grows by one exactly with each feature that leaves the pool
\* for a cluster, so that at the convergence check it is the number of features
\* moved in this iteration's REASSIGNING.
C26_MovedStep ==
    /\ (pc = "loop" /\ pc' = "seeding") => moved' = 0
    /\ pc \in {"seeding", "growing", "weeding"} => moved' = moved
    /\ (pc = "reassigning" /\ todo # <<>>) =>
          /\ moved' = moved + Cardinality(available \ available')
          /\ Members(clusters') = Members(clusters) \cup (available \ available')
    /\ (pc = "reassigning" /\ todo = <<>>) => moved' = moved

C26_MovedNow ==
    /\ pc \in {"seeding", "growing", "weeding"} => moved = 0
    /\ pc = "reassigning" =>
          moved = Cardinality(PoolAfterWeeding) - Cardinality(available)

C26_Moved == []C26_MovedNow /\ [][C26_MovedStep]_vars

C26_Witness ==
    /\ pc = "seeding"
    /\ iter_count = 2
    /\ moved = 0
    /\ \E k \in 2 .. Len(trace) :
          /\ trace[k].at = "reassigning"
          /\ trace[k - 1].at = "reassigning"
          /\ trace[k].pool # trace[k - 1].pool
    /\ \E k \in 1 .. Len(clusters) : Len(clusters[k].features) > 2

\* the phases of the outer loop
InLoop == pc \in {"loop", "seeding", "growing", "weeding", "reassigning"}

\* C27: in every state of the outer loop every cluster holds its root and at
\* least one more feature, and every non-root member has correlation to the
\* root >= threshold_root; so no step of the loop takes a feature out of a
\* cluster (WEEDING evicts nothing) and no step of the loop adds a feature to
\* the pool.
C27_MembersStrong ==
    (InLoop \/ pc = "post") =>
        \A k \in 1 .. Len(clusters) :
           /\ clusters[k].root \in SeqToSet(clusters[k].features)
           /\ Len(clusters[k].features) >= 2
           /\ BelowRoot(clusters[k]) = {}

C27_NothingLeaves ==
    InLoop =>
        /\ Len(clusters') >= Len(clusters)
        /\ \A k \in 1 .. Len(clusters) :
              /\ clusters'[k].root = clusters[k].root
              /\ SeqToSet(clusters[k].features) \subseteq SeqToSet(clusters'[k].features)
        /\ available' \subseteq available
        /\ pc = "weeding" => (clusters' = clusters /\ available' = available)

C27_NoEviction == []C27_MembersStrong /\ [][C27_NothingLeaves]_vars

C27_Witness ==
    /\ pc = "reassigning"
    /\ iter_count = 2
    /\ available # {}
    /\ \E k \in 1 .. Len(clusters) :
          /\ Len(clusters[k].features) >= 3
          /\ \E f \in SeqToSet(clusters[k].features) :
                corr_matrix[f][clusters[k].root] = params.threshold_root

\* the roots of the clusters of more than one feature
Roots(cls) == {cls[k].root : k \in {x \in 1 .. Len(cls) : Len(cls[x].features) > 1}}

\* the first SEEDING phase is over
FirstSeedingOver ==
    iter_count >= 2 \/ (iter_count = 1 /\ pc \in {"weeding", "reassigning", "loop", "post"})

\* C28: a cluster is seeded in the first outer iteration only: in every later
\* iteration no two pooled features have correlation >= threshold_root, and
\* once the first SEEDING phase has ended the number of clusters and their
\* roots stay as they are, up to the returned list, whose clusters of more than
\* one feature have exactly those roots.
C28_NoLaterSeed ==
    /\ pc = "growing" => iter_count = 1
    /\ (InLoop /\ FirstSeedingOver) => StrongPooledPairs = {}

C28_RootsFixed ==
    ((InLoop \/ pc = "post") /\ FirstSeedingOver) =>
        /\ Roots(clusters') = Roots(clusters)
        /\ Cardinality(Roots(clusters')) = Len(clusters)
        /\ pc' # "done" => Len(clusters') = Len(clusters)

C28_FirstIterationOnly == []C28_NoLaterSeed /\ [][C28_RootsFixed]_vars

C28_Witness ==
    /\ pc = "weeding"
    /\ iter_count = 2
    /\ Cardinality(available) >= 2
    /\ Len(clusters) >= 1

\* the places of a trace where a convergence check was made
ChecksIn(tr) ==
    {c \in 2 .. Len(tr) : tr[c - 1].at = "reassigning" /\ tr[c].at \in {"loop", "post"}}

\* the convergence checks of a trace that ended an iteration without a move:
\* the pool is the one WEEDING of that iteration left
ZeroMoveChecks(tr) ==
    {c \in ChecksIn(tr) :
        \E w \in 2 .. (c - 1) :
           /\ tr[w - 1].at = "weeding"
           /\ \A y \in w .. (c - 1) : tr[y].at = "reassigning"
           /\ tr[w].pool = tr[c].pool}

\* the index of the first iteration of a trace without a move, 0 if none
FirstZeroMove(tr) ==
    IF ZeroMoveChecks(tr) = {} THEN 0
    ELSE LET c == CHOOSE x \in ZeroMoveChecks(tr) : \A y \in ZeroMoveChecks(tr) : x <= y
         IN Cardinality({x \in ChecksIn(tr) : x <= c})

\* after an iteration without a move the pool and the clusters stay as they
\* are to the end of the loop, and the call returns them finalized
FixpointInRun ==
    \A c \in ZeroMoveChecks(trace) :
       /\ \A y \in c .. Len(trace) :
             trace[y].at # "done" => (trace[y].pool = trace[c].pool /\ trace[y].cl = trace[c].cl)
       /\ pc = "done" => result = Finalize(trace[c].cl, trace[c].pool)

\* C29 as stated: an iteration without a move is a fixpoint, and a later call
\* on the same store and thresholds returns the same list whenever its
\* max_iters is at or above the index of the first iteration without a move of
\* the earlier call, whatever the two convergence_epsilon values are.
C29_AnyEpsilon ==
    /\ FixpointInRun
    /\ (pc = "done" /\ prev_runs # <<>>) =>
          LET first == FirstZeroMove(prev_runs[1][1])
          IN (first > 0 /\ params.max_iters >= first) => result = prev_runs[1][2]

\* C29, with convergence_epsilon fixed: an iteration without a move is a
\* fixpoint, and a later call on the same store with the same thresholds and
\* the same convergence_epsilon returns the same list whenever its max_iters is
\* at or above the index of the first iteration without a move of the earlier
\* call.
C29_SameEpsilon ==
    /\ FixpointInRun
    /\ (pc = "done" /\ prev_runs # <<>>) =>
          LET first == FirstZeroMove(prev_runs[1][1])
          IN (/\ first > 0
              /\ params.max_iters >= first
              /\ params.convergence_epsilon = call.args[1].convergence_epsilon)
                 => result = prev_runs[1][2]

C29_Witness ==
    /\ pc = "done"
    /\ prev_runs # <<>>
    /\ FirstZeroMove(prev_runs[1][1]) = 3
    /\ FirstZeroMove(trace) = 3
    /\ params.max_iters = MaxItersLate + 1
    /\ params.convergence_epsilon = 0
    /\ call.args[1].convergence_epsilon = 0
    /\ iter_count = 4
    /\ result = prev_runs[1][2]

\* ------------------------------------------------------------------ C30
Setters == {"set_corr", "set_dist10", "set_rr"}

\* position in the store tuple of the list a setter writes
OwnList(op) == CASE op = "set_corr" -> 4 [] op = "set_dist10" -> 5 [] op = "set_rr" -> 6

\* the five parallel lists all have count() entries
C30_SameLength ==
    /\ Len(pair_names) = count
    /\ Len(corr) = count
    /\ Len(dist10) = count
    /\ Len(rr) = count

\* a call other than clear/initialize keeps every registered pair at its index
C30_IndexStable ==
    call.op \in {"add_or_get_pair"} \cup Setters =>
        /\ Len(call.before[2]) <= count
        /\ \A k \in 1 .. Len(call.before[2]) : pairs[k] = call.before[2][k]

\* a setter called with an index outside 0..count()-1 changes nothing; with an
\* index inside it the entry of its own list holds the value and nothing else
\* of the store differs
C30_SetterFrame ==
    call.op \in Setters =>
        LET index == call.args[1]
            value == call.args[2]
            own == OwnList(call.op)
            n == Len(call.before[2])
        IN IF index < 0 \/ index >= n
           THEN store = call.before
           ELSE /\ \A s \in 1 .. 9 : s # own => store[s] = call.before[s]
                /\ Len(store[own]) = n
                /\ \A k \in 1 .. n :
                     store[own][k] = IF k = index + 1 THEN value ELSE call.before[own][k]

\* C30: after any sequence of initialize, clear, add_or_get_pair, set_corr,
\* set_dist10 and set_rr calls the lists pairs, pair_names, corr, dist10 and rr
\* all have length count(), a registered pair keeps its index until
\* clear/initialize, a setter with an index outside 0..count()-1 changes
\* nothing and a setter with a valid index changes only that entry of its list
C30_ParallelLists == C30_SameLength /\ C30_IndexStable /\ C30_SetterFrame

\* what the setters do keep: they guard on the length of their own list, so
\* an index outside that list changes nothing and an index inside it changes
\* that entry only
C30_OwnListFrame ==
    call.op \in Setters =>
        LET index == call.args[1]
            own == OwnList(call.op)
        IN /\ \A s \in 1 .. 9 : s # own => store[s] = call.before[s]
           /\ Len(store[own]) = Len(call.before[own])
           /\ \A k \in 1 .. Len(store[own]) :
                store[own][k] = IF k = index + 1 THEN call.args[2]
                                ELSE call.before[own][k]

\* a setter was called with an index below count() on a store whose pairs list
\* is longer than the setter's list
C30_Witness ==
    /\ call.op \in Setters
    /\ call.args[1] = Len(call.before[2]) - 1
    /\ call.args[1] >= Len(call.before[OwnList(call.op)])
    /\ call.args[1] >= 0

====
